---- MODULE Spec2Model ----
(***************************************************************************)
(* Model of the wwwterm shell (class Shell): the line editor, the command  *)
(* interpreter with its redirects, tab completion and the in-memory file   *)
(* tree.                                                                   *)
(*                                                                         *)
(* A JavaScript string is a sequence of one-character strings for every    *)
(* text the user types (so that split, trim, indexOf and slice are         *)
(* computed character by character); a literal of the program's messages   *)
(* is a single element of such a sequence.  Concatenation is \o.           *)
(***************************************************************************)
EXTENDS Integers, Sequences, FiniteSets, TLC

VARIABLES
  nodes,               \* the file objects, by identity: nodes[1] is fileStructure
  currentDir,          \* this.currentDir, a node identity
  inputString,         \* this.inputString
  bashHistory,         \* this.bashHistory
  historyIndex,        \* this.historyIndex
  tabPressed,          \* this.tabPressed
  inputPromptElement,  \* html of $('#input')
  PS1Element,          \* html of $('#PS1')
  outputElement,       \* lines printed into $('#terminal-output')
  childProcess,        \* this.childProcess
  now,                 \* the clock read by new Date()
  obs                  \* the last event and what it returned

vars == <<nodes, currentDir, inputString, bashHistory, historyIndex, tabPressed,
          inputPromptElement, PS1Element, outputElement, childProcess, now, obs>>

-----------------------------------------------------------------------------
(* Bounds of the model *)

MaxNodes == 3
MaxContents == 2
MaxHistory == 2
MaxOutput == 4
MaxTime == 1

-----------------------------------------------------------------------------
(* JavaScript string and array primitives *)

Null == 0

Min(S) == CHOOSE x \in S : \A y \in S : x <= y

SliceFrom(s, a) == IF a >= Len(s) THEN <<>> ELSE SubSeq(s, a + 1, Len(s))

SliceTo(s, b) == IF b <= 0 THEN <<>> ELSE SubSeq(s, 1, IF b > Len(s) THEN Len(s) ELSE b)

DropLast(s) == SliceTo(s, Len(s) - 1)

IndexOf(s, p) ==
  LET hits == {i \in 0..(Len(s) - Len(p)) : SubSeq(s, i + 1, i + Len(p)) = p}
  IN IF hits = {} THEN -1 ELSE Min(hits)

Includes(s, p) == IndexOf(s, p) # -1

RECURSIVE Split(_, _)
Split(s, c) ==
  LET i == IndexOf(s, <<c>>)
  IN IF i = -1 THEN <<s>> ELSE <<SliceTo(s, i)>> \o Split(SliceFrom(s, i + 1), c)

(* The characters String.prototype.trim strips: white space and line         *)
(* terminators.  U+2000 to U+200A, U+2028, U+2029, U+202F, U+205F and U+3000   *)
(* are white space too; they cannot be written in a string here and no text   *)
(* of the model holds them.                                                   *)
WhiteSpace ==
  { " ", "\t", "\n", "\r", "\f", "", " ", "﻿", " " }

RECURSIVE TrimStart(_)
TrimStart(s) == IF Len(s) > 0 /\ s[1] \in WhiteSpace THEN TrimStart(Tail(s)) ELSE s

RECURSIVE TrimEnd(_)
TrimEnd(s) == IF Len(s) > 0 /\ s[Len(s)] \in WhiteSpace THEN TrimEnd(DropLast(s)) ELSE s

Trim(s) == TrimEnd(TrimStart(s))

RECURSIVE Join(_, _)
Join(ss, sep) ==
  IF Len(ss) = 0 THEN <<>>
  ELSE IF Len(ss) = 1 THEN ss[1]
  ELSE ss[1] \o <<sep>> \o Join(Tail(ss), sep)

RECURSIVE ReplaceAll(_, _, _)
ReplaceAll(s, c, r) ==
  IF Len(s) = 0 THEN <<>>
  ELSE (IF s[1] = c THEN <<r>> ELSE <<s[1]>>) \o ReplaceAll(Tail(s), c, r)

ReplaceFirst(s, c, r) ==
  LET i == IndexOf(s, <<c>>)
  IN IF i = -1 THEN s ELSE SliceTo(s, i) \o <<r>> \o SliceFrom(s, i + 1)

SelectNonEmpty(ss) == SelectSeq(ss, LAMBDA t : t # <<>>)

-----------------------------------------------------------------------------
(* Collaborators: shell-command.js, fileobject.js, io.js *)

ShellCommand(input) ==
  LET tokens == SelectNonEmpty(Split(input, " "))
  IN [command |-> IF Len(tokens) = 0 THEN <<>> ELSE tokens[1],
      args |-> IF Len(tokens) = 0 THEN <<>> ELSE Tail(tokens)]

ShellCommandResult(sh, stdOut, stdErr, data) ==
  [sh |-> sh, stdOut |-> stdOut, stdErr |-> stdErr, data |-> data, thrown |-> FALSE]

Thrown(sh) ==
  [sh |-> sh, stdOut |-> <<>>, stdErr |-> <<>>, data |-> Null, thrown |-> TRUE]

combine(res, other) ==
  [other EXCEPT !.stdOut = res.stdOut \o other.stdOut,
                !.stdErr = res.stdErr \o other.stdErr,
                !.data = Null]

getDefaultOutput(res) == res.stdErr \o res.stdOut

FileObject(name, fullPath, filetype, parentRef, t) ==
  [name |-> name, fullPath |-> fullPath, filetype |-> filetype, parentRef |-> parentRef,
   children |-> <<>>, contents |-> <<>>, hasContents |-> (filetype = "txt"),
   lastModified |-> IF filetype = "txt" THEN t ELSE 0]

fileStructure == 1

RootDir == FileObject(<<>>, <<>>, "dir", Null, 0)

filetypesFault(filetypes) == filetypes = {"notAnArray"}

getContentsByTypes(ns, dir, filetypes) ==
  SelectSeq(ns[dir].children, LAMBDA f : ns[f].filetype \in filetypes)

getChar(event) == IF event.which = 0 THEN <<event.key>> ELSE <<>>

print(out, html) == Append(out, html)

printInline(out, options) == Append(out, Join(options, " "))

user == <<"g", "u", "e", "s", "t">>

-----------------------------------------------------------------------------
(* class Shell: file lookup and creation *)

getPS1String(sh) ==
  <<"<span class=\"user\">">> \o user \o <<"@www.carlegbert.com:</span>">>
    \o <<"<span class=\"path\">">> \o sh.nodes[sh.currentDir].fullPath \o <<"</span>$&nbsp;">>

LastMatch(ns, dir, pathArg, typeToFind) ==
  LET ch == ns[dir].children
      hits == {i \in 1..Len(ch) :
                 /\ ns[ch[i]].name = pathArg
                 /\ (typeToFind = "any" \/ ns[ch[i]].filetype = typeToFind)}
  IN IF hits = {} THEN Null ELSE ch[CHOOSE i \in hits : \A j \in hits : j <= i]

findFileSwitch(ns, dir, pathArg, typeToFind) ==
  IF pathArg = <<".">> THEN dir
  ELSE IF pathArg = <<".", ".">> THEN ns[dir].parentRef
  ELSE IF pathArg = <<"~">> THEN fileStructure
  ELSE LastMatch(ns, dir, pathArg, typeToFind)

RECURSIVE findFile(_, _, _, _)
findFile(ns, dir, filepath, filetype) ==
  IF (Len(filepath) = 0 \/ (Len(filepath) = 1 /\ filepath[1] = <<>>)) /\ filetype = "dir"
  THEN dir
  ELSE IF Len(filepath) = 0 THEN Null
  ELSE LET pathArg == filepath[1]
           typeToFind == IF Len(filepath) = 1 THEN filetype ELSE "dir"
           found == findFileSwitch(ns, dir, pathArg, typeToFind)
       IN IF Len(filepath) = 1 \/ found = Null THEN found
          ELSE findFile(ns, found, Tail(filepath), filetype)

newFileInCurrentDir(sh, filepath, filetype) ==
  LET found == IF Len(filepath) = 1 THEN sh.currentDir
               ELSE findFile(sh.nodes, sh.currentDir, DropLast(filepath), "dir")
      dir == IF found = Null THEN sh.currentDir ELSE found
      filename == filepath[Len(filepath)]
      pathStr == sh.nodes[dir].fullPath \o <<"/">> \o filename
      file == Len(sh.nodes) + 1
      withFile == Append(sh.nodes, FileObject(filename, pathStr, filetype, dir, sh.now))
      ns == [withFile EXCEPT ![dir].children = Append(@, file)]
  IN ShellCommandResult([sh EXCEPT !.nodes = ns], <<>>, <<>>, file)

newFile(sh, filepath, filetype) ==
  LET dir == IF Len(filepath) = 1 THEN sh.currentDir
             ELSE findFile(sh.nodes, sh.currentDir, DropLast(filepath), "dir")
  IN IF dir = Null
     THEN ShellCommandResult(sh, <<>>,
            <<Join(DropLast(filepath), "/") \o <<": Directory not found">>>>, Null)
     ELSE LET filename == filepath[Len(filepath)]
              pathStr == sh.nodes[dir].fullPath \o <<"/">> \o filename
              file == Len(sh.nodes) + 1
              withFile == Append(sh.nodes, FileObject(filename, pathStr, filetype, dir, sh.now))
              ns == [withFile EXCEPT ![dir].children = Append(@, file)]
          IN ShellCommandResult([sh EXCEPT !.nodes = ns], <<>>, <<>>, file)

-----------------------------------------------------------------------------
(* class Shell: the shell commands *)

c_clear == <<"c", "l", "e", "a", "r">>
c_pwd == <<"p", "w", "d">>
c_whoami == <<"w", "h", "o", "a", "m", "i">>
c_cd == <<"c", "d">>
c_ls == <<"l", "s">>
c_cat == <<"c", "a", "t">>
c_touch == <<"t", "o", "u", "c", "h">>
c_mkdir == <<"m", "k", "d", "i", "r">>
c_echo == <<"e", "c", "h", "o">>
c_vi == <<"v", "i">>

validCommands ==
  <<c_clear, c_pwd, c_whoami, c_cd, c_ls, c_cat, c_touch, c_mkdir, c_echo, c_vi>>

Range(s) == {s[i] : i \in 1..Len(s)}

ObjectPrototypeNames ==
  { <<"c", "o", "n", "s", "t", "r", "u", "c", "t", "o", "r">>,
    <<"t", "o", "S", "t", "r", "i", "n", "g">>,
    <<"t", "o", "L", "o", "c", "a", "l", "e", "S", "t", "r", "i", "n", "g">>,
    <<"v", "a", "l", "u", "e", "O", "f">>,
    <<"h", "a", "s", "O", "w", "n", "P", "r", "o", "p", "e", "r", "t", "y">>,
    <<"i", "s", "P", "r", "o", "t", "o", "t", "y", "p", "e", "O", "f">>,
    <<"p", "r", "o", "p", "e", "r", "t", "y", "I", "s", "E", "n", "u", "m", "e", "r", "a", "b", "l", "e">>,
    <<"_", "_", "p", "r", "o", "t", "o", "_", "_">>,
    <<"_", "_", "d", "e", "f", "i", "n", "e", "G", "e", "t", "t", "e", "r", "_", "_">>,
    <<"_", "_", "d", "e", "f", "i", "n", "e", "S", "e", "t", "t", "e", "r", "_", "_">>,
    <<"_", "_", "l", "o", "o", "k", "u", "p", "G", "e", "t", "t", "e", "r", "_", "_">>,
    <<"_", "_", "l", "o", "o", "k", "u", "p", "S", "e", "t", "t", "e", "r", "_", "_">> }

NotAnArray == {"notAnArray"}

getValidTypes(cmdName) ==
  IF cmdName \in {c_ls, c_cd, c_mkdir} THEN {"dir"}
  ELSE IF cmdName \in {c_whoami, c_pwd, c_clear} THEN {}
  ELSE IF cmdName \in {c_cat, <<">">>, c_vi} THEN {"txt"}
  ELSE IF cmdName \in ObjectPrototypeNames THEN NotAnArray
  ELSE {"dir", "txt"}

clearKeepsDisplay(sh, shellCommand) == ShellCommandResult(sh, <<>>, <<>>, Null)

clear(sh, shellCommand) ==
  ShellCommandResult([sh EXCEPT !.outputElement = <<>>], <<>>, <<>>, Null)

pwdOfRoot(sh, shellCommand) ==
  ShellCommandResult(sh, <<sh.nodes[fileStructure].fullPath>>, <<>>, Null)

pwd(sh, shellCommand) ==
  ShellCommandResult(sh, <<sh.nodes[sh.currentDir].fullPath>>, <<>>, Null)

whoami(sh, shellCommand) == ShellCommandResult(sh, <<user>>, <<>>, Null)

cd(sh, shellCommand) ==
  LET dir == IF Len(shellCommand.args) = 0 THEN fileStructure
             ELSE findFile(sh.nodes, sh.currentDir, Split(shellCommand.args[1], "/"), "dir")
  IN IF dir # Null
     THEN LET moved == [sh EXCEPT !.currentDir = dir]
          IN ShellCommandResult([moved EXCEPT !.PS1Element = getPS1String(moved)],
                                <<>>, <<>>, Null)
     ELSE ShellCommandResult(sh, <<>>,
            <<shellCommand.args[1] \o <<": directory not found">>>>, Null)

RECURSIVE lsHelperFrom(_, _, _)
lsHelperFrom(ns, dir, i) ==
  IF i > Len(ns[dir].children) THEN <<>>
  ELSE LET child == ns[ns[dir].children[i]]
       IN <<"<li class=\"inline ", child.filetype, "\">">> \o child.name \o <<"</li>">>
            \o lsHelperFrom(ns, dir, i + 1)

lsHelper(ns, dir) == <<"<div>">> \o lsHelperFrom(ns, dir, 1) \o <<"</div>">>

lsArgDropsError(sh, shellCommand, arg, res) ==
  LET dir == findFile(sh.nodes, sh.currentDir, Split(arg, "/"), "dir")
  IN IF dir = Null THEN res
     ELSE [res EXCEPT !.stdOut = Append(@,
             (IF Len(shellCommand.args) > 1 THEN arg \o <<":">> ELSE <<>>)
               \o lsHelper(sh.nodes, dir))]

lsArg(sh, shellCommand, arg, res) ==
  LET dir == findFile(sh.nodes, sh.currentDir, Split(arg, "/"), "dir")
  IN IF dir = Null
     THEN [res EXCEPT !.stdErr = Append(@,
             <<"ls: cannot access ">> \o arg \o <<": no such file or directory">>)]
     ELSE [res EXCEPT !.stdOut = Append(@,
             (IF Len(shellCommand.args) > 1 THEN arg \o <<":">> ELSE <<>>)
               \o lsHelper(sh.nodes, dir))]

RECURSIVE lsForEach(_, _, _, _)
lsForEach(sh, shellCommand, i, res) ==
  IF i > Len(shellCommand.args) THEN res
  ELSE lsForEach(sh, shellCommand, i + 1, lsArg(sh, shellCommand, shellCommand.args[i], res))

ls(sh, shellCommand) ==
  LET res == ShellCommandResult(sh, <<>>, <<>>, Null)
  IN IF Len(shellCommand.args) = 0
     THEN [res EXCEPT !.stdOut = Append(@, lsHelper(sh.nodes, sh.currentDir))]
     ELSE lsForEach(sh, shellCommand, 1, res)

catArg(sh, arg, res) ==
  LET path == Split(arg, "/")
      file == findFile(sh.nodes, sh.currentDir, path, "any")
  IN IF file # Null /\ sh.nodes[file].filetype = "dir"
     THEN [res EXCEPT !.stdErr = Append(@,
             <<"cat: ">> \o sh.nodes[file].name \o <<": Is a directory">>)]
     ELSE IF file # Null
     THEN [res EXCEPT !.stdOut = @ \o sh.nodes[file].contents]
     ELSE [res EXCEPT !.stdErr = Append(@,
             <<"cat: ">> \o arg \o <<": No such file or directory">>)]

RECURSIVE catForEach(_, _, _, _)
catForEach(sh, shellCommand, i, res) ==
  IF i > Len(shellCommand.args) THEN res
  ELSE catForEach(sh, shellCommand, i + 1, catArg(sh, shellCommand.args[i], res))

cat(sh, shellCommand) ==
  catForEach(sh, shellCommand, 1, ShellCommandResult(sh, <<>>, <<>>, Null))

touchArg(arg, res) ==
  LET path == Split(arg, "/")
      file == findFile(res.sh.nodes, res.sh.currentDir, path, "txt")
  IN IF file # Null
     THEN [res EXCEPT !.sh.nodes[file].lastModified = res.sh.now]
     ELSE combine(res, newFile(res.sh, path, "txt"))

RECURSIVE touchForEach(_, _, _)
touchForEach(shellCommand, i, res) ==
  IF i > Len(shellCommand.args) THEN res
  ELSE touchForEach(shellCommand, i + 1, touchArg(shellCommand.args[i], res))

touch(sh, shellCommand) ==
  touchForEach(shellCommand, 1, ShellCommandResult(sh, <<>>, <<>>, Null))

mkdirArgAlwaysCreates(arg, res) ==
  combine(res, newFile(res.sh, Split(arg, "/"), "dir"))

mkdirArg(arg, res) ==
  LET path == Split(arg, "/")
      file == findFile(res.sh.nodes, res.sh.currentDir, path, "dir")
  IN IF file = Null
     THEN combine(res, newFile(res.sh, path, "dir"))
     ELSE res

RECURSIVE mkdirForEach(_, _, _)
mkdirForEach(shellCommand, i, res) ==
  IF i > Len(shellCommand.args) THEN res
  ELSE mkdirForEach(shellCommand, i + 1, mkdirArg(shellCommand.args[i], res))

mkdir(sh, shellCommand) ==
  mkdirForEach(shellCommand, 1, ShellCommandResult(sh, <<>>, <<>>, Null))

echo(sh, shellCommand) ==
  ShellCommandResult(sh, <<Join(shellCommand.args, " ")>>, <<>>, Null)

Vi(fPath, file) == [active |-> TRUE, fPath |-> fPath, file |-> file]

NoChild == [active |-> FALSE, fPath |-> <<>>, file |-> Null]

vi(sh, shellCommand) ==
  IF Len(shellCommand.args) = 0 THEN Thrown(sh)
  ELSE LET fPath == Split(shellCommand.args[1], "/")
           file == findFile(sh.nodes, sh.currentDir, fPath, "txt")
       IN ShellCommandResult([sh EXCEPT !.childProcess = Vi(fPath, file)], <<>>, <<>>, Null)

-----------------------------------------------------------------------------
(* class Shell: the command interpreter *)

RECURSIVE executeCommand(_, _)
RECURSIVE redirect(_, _, _)

dispatch(sh, shellCommand) ==
  CASE shellCommand.command = c_clear -> clear(sh, shellCommand)
    [] shellCommand.command = c_pwd -> pwd(sh, shellCommand)
    [] shellCommand.command = c_whoami -> whoami(sh, shellCommand)
    [] shellCommand.command = c_cd -> cd(sh, shellCommand)
    [] shellCommand.command = c_ls -> ls(sh, shellCommand)
    [] shellCommand.command = c_cat -> cat(sh, shellCommand)
    [] shellCommand.command = c_touch -> touch(sh, shellCommand)
    [] shellCommand.command = c_mkdir -> mkdir(sh, shellCommand)
    [] shellCommand.command = c_echo -> echo(sh, shellCommand)
    [] shellCommand.command = c_vi -> vi(sh, shellCommand)

executeCommand(sh, inputString_) ==
  IF Includes(inputString_, <<">", ">">>) THEN redirect(sh, inputString_, <<">", ">">>)
  ELSE IF Includes(inputString_, <<">">>) THEN redirect(sh, inputString_, <<">">>)
  ELSE LET shellCommand == ShellCommand(inputString_)
       IN IF shellCommand.command \notin Range(validCommands)
          THEN ShellCommandResult(sh, <<>>,
                 <<shellCommand.command \o <<": command not found">>>>, Null)
          ELSE dispatch(sh, shellCommand)

writeFile(sh, file, pattern, res) ==
  IF file = Null
  THEN sh
  ELSE IF pattern = <<">">>
  THEN [sh EXCEPT !.nodes[file].contents = res.stdOut, !.nodes[file].hasContents = TRUE]
  ELSE [sh EXCEPT !.nodes[file].contents = @ \o res.stdOut]

redirectTo(filepath, pattern, res, existing, created) ==
  IF res.thrown THEN res
  ELSE IF existing = Null /\ created.data = Null
  THEN ShellCommandResult(created.sh, <<>>,
         <<<<"bash: ">> \o filepath \o <<": No such file or directory">>>>, Null)
  ELSE IF existing # Null /\ pattern # <<">">> /\ ~res.sh.nodes[existing].hasContents
  THEN Thrown(res.sh)
  ELSE IF existing # Null
  THEN ShellCommandResult(writeFile(res.sh, existing, pattern, res), <<>>, res.stdErr, Null)
  ELSE ShellCommandResult(writeFile(created.sh, created.data, pattern, res),
                          <<>>, res.stdErr, Null)

redirectInner(filepath, pattern, res) ==
  redirectTo(filepath, pattern, res,
             findFile(res.sh.nodes, res.sh.currentDir, <<filepath>>, "txt"),
             newFile(res.sh, <<filepath>>, "txt"))

redirectArgs(sh, inputString_, pattern, i, afterSymbol) ==
  IF Len(afterSymbol) = 0
  THEN ShellCommandResult(sh, <<>>, <<<<"Syntax error">>>>, Null)
  ELSE redirectInner(afterSymbol[1], pattern,
         executeCommand(sh,
           SliceTo(inputString_, i)
             \o Join(IF Len(afterSymbol) = 1 THEN <<>>
                     ELSE SliceFrom(afterSymbol, Len(pattern)), " ")))

redirect(sh, inputString_, pattern) ==
  redirectArgs(sh, inputString_, pattern, IndexOf(inputString_, pattern),
    Split(Trim(SliceFrom(inputString_, IndexOf(inputString_, pattern) + Len(pattern))), " "))

-----------------------------------------------------------------------------
(* class Shell: tab completion *)

filterAutoCompleteOptions(partial, options) ==
  SelectSeq(options, LAMBDA opt :
    Len(opt) >= Len(partial) /\ SliceTo(opt, Len(partial)) = partial)

RECURSIVE optionNames(_, _)
optionNames(ns, fileOptions) ==
  IF Len(fileOptions) = 0 THEN <<>>
  ELSE LET f == ns[fileOptions[1]]
       IN <<f.name \o (IF f.filetype = "dir" THEN <<"/">> ELSE <<>>)>>
            \o optionNames(ns, Tail(fileOptions))

getAutocompleteFiles(sh, partial, filetypes) ==
  LET partialAsArray == Split(partial, "/")
      partialName == partialAsArray[Len(partialAsArray)]
      dirPath == DropLast(partialAsArray)
      dir == findFile(sh.nodes, sh.currentDir, dirPath, "dir")
  IN IF dir = Null \/ filetypesFault(filetypes) THEN [thrown |-> TRUE, options |-> <<>>]
     ELSE [thrown |-> FALSE,
           options |-> filterAutoCompleteOptions(partialName,
                         optionNames(sh.nodes, getContentsByTypes(sh.nodes, dir, filetypes)))]

printAutoCompleteOptionsResets(sh, line, options) ==
  IF sh.tabPressed
  THEN [sh EXCEPT !.outputElement =
                     printInline(print(@, getPS1String(sh) \o line.inputString), options),
                  !.tabPressed = FALSE]
  ELSE [sh EXCEPT !.tabPressed = TRUE]

printAutoCompleteOptions(sh, line, options) ==
  IF sh.tabPressed
  THEN [sh EXCEPT !.outputElement =
                     printInline(print(@, getPS1String(sh) \o line.inputString), options)]
  ELSE [sh EXCEPT !.tabPressed = TRUE]

executeAutoComplete(line, partial, complete) ==
  LET splitPartial == Split(partial, "/")
      wordPartial == splitPartial[Len(splitPartial)]
      completion == SliceFrom(complete, Len(wordPartial))
  IN [inputString |-> line.inputString \o completion,
      inputPromptElement |-> line.inputPromptElement \o completion]

tabOptions(sh, line) ==
  LET spaceAtEnd == Len(line.inputString) > 0 /\ line.inputString[Len(line.inputString)] = " "
      cmd == ShellCommand(line.inputString)
  IN IF cmd.command = <<>>
     THEN [thrown |-> FALSE, partial |-> <<>>, options |-> validCommands]
     ELSE IF ~spaceAtEnd /\ Len(cmd.args) = 0
     THEN [thrown |-> FALSE, partial |-> cmd.command,
           options |-> filterAutoCompleteOptions(cmd.command, validCommands)]
     ELSE LET partial == IF Len(cmd.args) = 0 THEN <<>> ELSE cmd.args[Len(cmd.args)]
              first == getAutocompleteFiles(sh, partial, getValidTypes(cmd.command))
              second == getAutocompleteFiles(sh, partial, {"dir"})
              chosen == IF first.thrown \/ Len(first.options) # 0 THEN first ELSE second
          IN [thrown |-> chosen.thrown, partial |-> partial, options |-> chosen.options]

tabAct(sh, line, t) ==
  IF t.thrown THEN [sh |-> sh, line |-> line, thrown |-> TRUE]
  ELSE IF Len(t.options) = 1
  THEN [sh |-> sh, line |-> executeAutoComplete(line, t.partial, t.options[1]),
        thrown |-> FALSE]
  ELSE IF Len(t.options) > 1
  THEN [sh |-> printAutoCompleteOptions(sh, line, t.options), line |-> line,
        thrown |-> FALSE]
  ELSE [sh |-> sh, line |-> line, thrown |-> FALSE]

handleTab(sh, line) == tabAct(sh, line, tabOptions(sh, line))

-----------------------------------------------------------------------------
(* The session as a state machine *)

Shell ==
  [nodes |-> nodes, currentDir |-> currentDir, childProcess |-> childProcess,
   outputElement |-> outputElement, PS1Element |-> PS1Element,
   tabPressed |-> tabPressed, now |-> now]

Line == [inputString |-> inputString, inputPromptElement |-> inputPromptElement]

Observed(op, line, res) ==
  [op |-> op, line |-> line, stdOut |-> res.stdOut, stdErr |-> res.stdErr,
   thrown |-> res.thrown, dirBefore |-> currentDir, nodesBefore |-> Len(nodes),
   outBefore |-> Len(outputElement)]

NoResult == [stdOut |-> <<>>, stdErr |-> <<>>, thrown |-> FALSE]

WithinBounds(sh) ==
  /\ Len(sh.nodes) <= MaxNodes
  /\ \A f \in 1..Len(sh.nodes) : Len(sh.nodes[f].contents) <= MaxContents
  /\ Len(sh.outputElement) <= MaxOutput

SetShell(sh) ==
  /\ nodes' = sh.nodes
  /\ currentDir' = sh.currentDir
  /\ childProcess' = sh.childProcess
  /\ outputElement' = sh.outputElement
  /\ PS1Element' = sh.PS1Element
  /\ tabPressed' = sh.tabPressed

W(c) == <<c>>

L(words) == Join(words, " ")

Lines ==
  { L(<<c_touch, W("f")>>),
    L(<<c_mkdir, W("d")>>), L(<<c_mkdir, W("f")>>),
    L(<<c_cd, W("d")>>), L(<<c_cd, <<".", ".">>>>), L(<<c_cd>>),
    L(<<c_echo, W("x"), W(">"), W("f")>>),
    L(<<c_echo, W("y"), <<">", ">">>, W("f")>>),
    L(<<c_cat, W("f")>>),
    L(<<c_ls>>), L(<<c_ls, W("n")>>), L(<<c_ls, W("d"), W("n")>>),
    L(<<c_ls, <<".", ".">>, <<"d", "/", "n">>, W("f")>>),
    L(<<c_echo, W("x"), W(">")>>),
    L(<<c_echo, W("x"), W(">"), <<"n", "/", "f">>>>),
    L(<<c_echo, W("x"), W(">"), <<"d", "/", "f">>>>) }

Init ==
  /\ nodes = <<RootDir>>
  /\ currentDir = fileStructure
  /\ inputString = <<>>
  /\ bashHistory = <<>>
  /\ historyIndex = 0
  /\ tabPressed = FALSE
  /\ inputPromptElement = <<>>
  /\ PS1Element = getPS1String([nodes |-> <<RootDir>>, currentDir |-> fileStructure])
  /\ outputElement = <<>>
  /\ childProcess = NoChild
  /\ now = 0
  /\ obs = Observed("init", <<>>, NoResult)

Tick ==
  /\ now < MaxTime
  /\ now' = now + 1
  /\ UNCHANGED <<nodes, currentDir, inputString, bashHistory, historyIndex, tabPressed,
                 inputPromptElement, PS1Element, outputElement, childProcess, obs>>

Returned(line, res) ==
  /\ WithinBounds(res.sh)
  /\ SetShell(res.sh)
  /\ obs' = Observed("executeCommand", line, res)
  /\ UNCHANGED <<inputString, bashHistory, historyIndex, inputPromptElement, now>>

ExecuteCommand(line) ==
  /\ line \in Lines
  /\ Returned(line, executeCommand(Shell, line))

Executes(line) == obs'.op = "executeCommand" /\ obs'.line = line /\ ExecuteCommand(line)

Next == (\E line \in Lines : ExecuteCommand(line)) \/ Tick

Spec == Init /\ [][Next]_vars

-----------------------------------------------------------------------------
(* class Shell: keystrokes *)

Session ==
  [sh |-> Shell, inputString |-> inputString, inputPromptElement |-> inputPromptElement,
   bashHistory |-> bashHistory, historyIndex |-> historyIndex,
   res |-> NoResult]

IsBlank(str) == \A i \in 1..Len(str) : str[i] = " "

enterResult(S, history, res) ==
  IF res.thrown
  THEN [S EXCEPT !.sh = res.sh, !.bashHistory = history,
                 !.res = [stdOut |-> <<>>, stdErr |-> <<>>, thrown |-> TRUE]]
  ELSE [S EXCEPT !.sh = [res.sh EXCEPT !.outputElement = print(@, getDefaultOutput(res))],
                 !.bashHistory = history,
                 !.inputString = <<>>,
                 !.inputPromptElement = <<>>,
                 !.historyIndex = Len(history),
                 !.res = [stdOut |-> res.stdOut, stdErr |-> res.stdErr, thrown |-> FALSE]]

handleEnterDedups(S) ==
  IF IsBlank(S.inputString)
  THEN [S EXCEPT !.sh.outputElement = print(@, getPS1String(S.sh)),
                 !.inputString = <<>>,
                 !.inputPromptElement = <<>>,
                 !.historyIndex = Len(S.bashHistory)]
  ELSE enterResult(S,
         IF Len(S.bashHistory) > 0 /\ S.bashHistory[Len(S.bashHistory)] = S.inputString
         THEN S.bashHistory ELSE Append(S.bashHistory, S.inputString),
         executeCommand(
           [S.sh EXCEPT !.outputElement =
              print(@, getPS1String(S.sh) \o ReplaceFirst(S.inputString, " ", "&nbsp;"))],
           S.inputString))

handleEnter(S) ==
  IF IsBlank(S.inputString)
  THEN [S EXCEPT !.sh.outputElement = print(@, getPS1String(S.sh)),
                 !.inputString = <<>>,
                 !.inputPromptElement = <<>>,
                 !.historyIndex = Len(S.bashHistory)]
  ELSE enterResult(S, Append(S.bashHistory, S.inputString),
         executeCommand(
           [S.sh EXCEPT !.outputElement =
              print(@, getPS1String(S.sh) \o ReplaceFirst(S.inputString, " ", "&nbsp;"))],
           S.inputString))

backspace(S) ==
  LET cut == DropLast(S.inputString)
  IN [S EXCEPT !.sh.tabPressed = FALSE,
               !.inputString = cut,
               !.inputPromptElement = ReplaceAll(cut, " ", "&nbsp;")]

upArrowKeepsIndex(S) ==
  [S EXCEPT !.sh.tabPressed = FALSE,
            !.inputString = S.bashHistory[S.historyIndex],
            !.inputPromptElement = S.bashHistory[S.historyIndex]]

upArrow(S) ==
  [S EXCEPT !.sh.tabPressed = FALSE,
            !.historyIndex = S.historyIndex - 1,
            !.inputString = S.bashHistory[(S.historyIndex - 1) + 1],
            !.inputPromptElement = S.bashHistory[(S.historyIndex - 1) + 1]]

downArrow(S) ==
  LET index == S.historyIndex + 1
      str == IF index = Len(S.bashHistory) THEN <<>> ELSE S.bashHistory[index + 1]
  IN [S EXCEPT !.sh.tabPressed = FALSE,
               !.historyIndex = index,
               !.inputString = str,
               !.inputPromptElement = str]

tabResult(S, t) ==
  [S EXCEPT !.sh = t.sh,
            !.inputString = t.line.inputString,
            !.inputPromptElement = t.line.inputPromptElement,
            !.res = [stdOut |-> <<>>, stdErr |-> <<>>, thrown |-> t.thrown]]

tab(S) ==
  tabResult(S, handleTab(S.sh, [inputString |-> S.inputString,
                                inputPromptElement |-> S.inputPromptElement]))

otherKey(S, event) ==
  LET k == getChar(event)
      kSpaceAdjusted == IF k = <<" ">> THEN <<"&nbsp;">> ELSE k
  IN [S EXCEPT !.sh.tabPressed = FALSE,
               !.inputString = @ \o k,
               !.inputPromptElement = @ \o kSpaceAdjusted]

shellKeystroke(S, event) ==
  IF event.which = 13 THEN handleEnter([S EXCEPT !.sh.tabPressed = FALSE])
  ELSE IF event.which = 8 THEN backspace(S)
  ELSE IF event.which = 38 /\ S.historyIndex > 0 THEN upArrow(S)
  ELSE IF event.which = 40 /\ S.historyIndex < Len(S.bashHistory) THEN downArrow(S)
  ELSE IF event.which = 9 THEN tab(S)
  ELSE otherKey(S, event)

KeyName(event) ==
  CASE event.which = 13 -> "enter"
    [] event.which = 8 -> "backspace"
    [] event.which = 38 -> "up"
    [] event.which = 40 -> "down"
    [] event.which = 9 -> "tab"
    [] OTHER -> "char"

Special(code) == [which |-> code, key |-> ""]

Char(c) == [which |-> 0, key |-> c]

KeyLines ==
  { L(<<c_vi, W("f")>>), L(<<W("a")>>), L(<<W(" ")>>) }

Prefixes(line) == {SliceTo(line, n) : n \in 0..Len(line)}

Typable(str) == \E line \in KeyLines : str \in Prefixes(line)

Alphabet == UNION {Range(line) : line \in KeyLines}

SetSession(S, event) ==
  /\ WithinBounds(S.sh)
  /\ Len(S.bashHistory) <= MaxHistory
  /\ SetShell(S.sh)
  /\ inputString' = S.inputString
  /\ inputPromptElement' = S.inputPromptElement
  /\ bashHistory' = S.bashHistory
  /\ historyIndex' = S.historyIndex
  /\ obs' = Observed(KeyName(event), IF event.which = 13 THEN inputString ELSE <<>>, S.res)
  /\ UNCHANGED now

parseKeystrokeIgnoresChild(event) == SetSession(shellKeystroke(Session, event), event)

parseKeystroke(event) ==
  /\ ~childProcess.active
  /\ SetSession(shellKeystroke(Session, event), event)

Enter ==
  /\ parseKeystroke(Special(13))
  /\ obs'.op = "enter"

Backspace ==
  /\ parseKeystroke(Special(8))
  /\ obs'.op = "backspace"

UpArrow ==
  /\ parseKeystroke(Special(38))
  /\ obs'.op = "up"

DownArrow ==
  /\ parseKeystroke(Special(40))
  /\ obs'.op = "down"

Tab ==
  /\ parseKeystroke(Special(9))
  /\ obs'.op = "tab"

Type == \E c \in Alphabet : Typable(inputString \o <<c>>) /\ parseKeystroke(Char(c))

ChildKeystroke ==
  /\ childProcess.active
  /\ obs' = Observed("child", <<>>, NoResult)
  /\ UNCHANGED <<nodes, currentDir, inputString, bashHistory, historyIndex, tabPressed,
                 inputPromptElement, PS1Element, outputElement, childProcess, now>>

killChildProcess ==
  /\ childProcess.active
  /\ childProcess' = NoChild
  /\ obs' = Observed("killChildProcess", <<>>, NoResult)
  /\ UNCHANGED <<nodes, currentDir, inputString, bashHistory, historyIndex, tabPressed,
                 inputPromptElement, PS1Element, outputElement, now>>

NextKeys ==
  \/ Enter
  \/ Backspace
  \/ UpArrow
  \/ DownArrow
  \/ Tab
  \/ Type
  \/ ChildKeystroke
  \/ killChildProcess

SpecKeys == Init /\ [][NextKeys]_vars

-----------------------------------------------------------------------------
(* The interpreter called line by line, with the display written by Enter *)

w_foo == <<"f", "o", "o">>
w_help == <<"h", "e", "l", "p">>
w_n_f == <<"n", "/", "f">>
w_n_e == <<"n", "/", "e">>
w_g_e == <<"g", "/", "e">>
w_onto == <<">", ">">>

l_mkdir_d == L(<<c_mkdir, W("d")>>)
l_cd_d == L(<<c_cd, W("d")>>)
l_cd_up == L(<<c_cd, <<".", ".">>>>)
l_cat_f == L(<<c_cat, W("f")>>)
l_foo == L(<<w_foo>>)
l_foo_to_f == L(<<w_foo, W(">"), W("f")>>)
l_help == L(<<w_help>>)
l_pwd == L(<<c_pwd>>)
l_whoami == L(<<c_whoami>>)
l_clear == L(<<c_clear>>)
l_echo_a_to_f_b_c == L(<<c_echo, W("a"), W(">"), W("f"), W("b"), W("c")>>)
l_echo_a_onto_f_b_c == L(<<c_echo, W("a"), w_onto, W("f"), W("b"), W("c")>>)
l_touch_n_f_g == L(<<c_touch, w_n_f, W("g")>>)
l_mkdir_n_e_d == L(<<c_mkdir, w_n_e, W("d")>>)
l_mkdir_g_e_d == L(<<c_mkdir, w_g_e, W("d")>>)
l_touch_g == L(<<c_touch, W("g")>>)

CmdLines ==
  { l_foo, l_foo_to_f, l_help, l_pwd, l_whoami, l_clear,
    l_mkdir_d, l_cd_d, l_cd_up }

ExecuteCmd(line) ==
  /\ line \in CmdLines
  /\ Returned(line, executeCommand(Shell, line))

ExecutesCmd(line) == obs'.op = "executeCommand" /\ obs'.line = line /\ ExecuteCmd(line)

NextCmds == (\E line \in CmdLines : ExecuteCmd(line)) \/ Enter

SpecCmds == Init /\ [][NextCmds]_vars

-----------------------------------------------------------------------------
(* The interpreter called line by line on redirects and on creation by path *)

FileLines ==
  { l_echo_a_to_f_b_c, l_echo_a_onto_f_b_c,
    l_touch_n_f_g, l_mkdir_n_e_d, l_mkdir_g_e_d,
    l_touch_g, l_mkdir_d, l_cat_f, l_cd_d, l_cd_up }

ExecuteFileCmd(line) ==
  /\ line \in FileLines
  /\ Returned(line, executeCommand(Shell, line))

ExecutesFileCmd(line) ==
  obs'.op = "executeCommand" /\ obs'.line = line /\ ExecuteFileCmd(line)

NextFiles == \E line \in FileLines : ExecuteFileCmd(line)

SpecFiles == Init /\ [][NextFiles]_vars

-----------------------------------------------------------------------------
(* Tab completion over file structures handed to the constructor *)

w_fo == <<"f", "o">>
w_fa == <<"f", "a">>
w_d_fo == <<"d", "/", "f", "o">>

EmptyShell ==
  [nodes |-> <<RootDir>>, currentDir |-> fileStructure, childProcess |-> NoChild,
   outputElement |-> <<>>, PS1Element |-> <<>>, tabPressed |-> FALSE, now |-> 0]

RECURSIVE Built(_, _)
Built(sh, lines) ==
  IF Len(lines) = 0 THEN sh.nodes
  ELSE Built(executeCommand(sh, lines[1]).sh, Tail(lines))

FileStructures ==
  { Built(EmptyShell, lines) :
      lines \in { <<>>,
                  <<L(<<c_mkdir, W("d")>>), L(<<c_touch, w_fo>>)>>,
                  <<L(<<c_touch, w_fo>>), L(<<c_touch, w_fa>>)>>,
                  <<L(<<c_mkdir, W("d")>>), L(<<c_touch, w_d_fo>>)>> } }

InitTab ==
  /\ nodes \in FileStructures
  /\ currentDir = fileStructure
  /\ inputString = <<>>
  /\ bashHistory = <<>>
  /\ historyIndex = 0
  /\ tabPressed = FALSE
  /\ inputPromptElement = <<>>
  /\ PS1Element = getPS1String([nodes |-> <<RootDir>>, currentDir |-> fileStructure])
  /\ outputElement = <<>>
  /\ childProcess = NoChild
  /\ now = 0
  /\ obs = Observed("init", <<>>, NoResult)

TabLines ==
  { L(<<c_cat, W("f"), <<>>>>),
    L(<<c_cat, <<"n", "/", "z">>>>),
    L(<<c_cat, <<"d", "/", "f">>>>),
    L(<<c_cd, W("d")>>),
    L(<<<<"v", "a", "l", "u", "e", "O", "f">>, W("f")>>),
    <<"e", "c">> }

TypeTab ==
  \E c \in UNION {Range(line) : line \in TabLines} :
    /\ \E line \in TabLines : (inputString \o <<c>>) \in Prefixes(line)
    /\ parseKeystroke(Char(c))

NextTab ==
  \/ TypeTab
  \/ Tab
  \/ Backspace

SpecTab == InitTab /\ [][NextTab]_vars

-----------------------------------------------------------------------------
(* Vocabulary of the properties *)

l_touch_f == L(<<c_touch, W("f")>>)
l_mkdir_f == L(<<c_mkdir, W("f")>>)
l_echo_x_to_f == L(<<c_echo, W("x"), W(">"), W("f")>>)
l_echo_y_onto_f == L(<<c_echo, W("y"), <<">", ">">>, W("f")>>)
l_ls_n == L(<<c_ls, W("n")>>)
l_ls_d_n == L(<<c_ls, W("d"), W("n")>>)
l_echo_x_to_nothing == L(<<c_echo, W("x"), W(">")>>)
l_echo_x_to_n_f == L(<<c_echo, W("x"), W(">"), <<"n", "/", "f">>>>)
l_echo_x_to_d_f == L(<<c_echo, W("x"), W(">"), <<"d", "/", "f">>>>)

Ran(line) == obs.op = "executeCommand" /\ obs.line = line /\ ~obs.thrown

ChildrenNamed(ns, dir, name, filetype) ==
  {i \in 1..Len(ns[dir].children) :
     /\ ns[ns[dir].children[i]].name = name
     /\ ns[ns[dir].children[i]].filetype = filetype}

CatF == executeCommand(Shell, l_cat_f).stdOut

-----------------------------------------------------------------------------
(* C1: after `echo x > f`, `cat f` returns exactly [x], whatever f held before; *)
(* after a further `echo y >> f`, `cat f` returns exactly [x, y] *)
C1_RedirectRoundTrip ==
  [][ /\ Executes(l_echo_x_to_f) => CatF' = <<W("x")>>
      /\ Executes(l_echo_y_onto_f) /\ Ran(l_echo_x_to_f) => CatF' = <<W("x"), W("y")>>
    ]_vars

(* C2: no directory has two children with the same name, whatever their types *)
C2_NoTwoSiblingsShareName ==
  \A dir \in 1..Len(nodes) :
    \A i, j \in 1..Len(nodes[dir].children) :
      i # j => nodes[nodes[dir].children[i]].name # nodes[nodes[dir].children[j]].name

(* C3: `cd ..` moves to the parent of the current directory with empty stderr *)
(* and undoes a preceding `cd d`; at the root `..` is the root itself, so that *)
(* `cd ..` succeeds there with empty stderr and stays at the root *)
C3_CdUpRestores ==
  [][ Executes(l_cd_up) =>
        /\ obs'.stdErr = <<>> /\ ~obs'.thrown
        /\ currentDir' = nodes[currentDir].parentRef
        /\ (currentDir = fileStructure => currentDir' = fileStructure)
        /\ (Ran(l_cd_d) /\ obs.stdErr = <<>> =>
              /\ currentDir' = obs.dirBefore
              /\ ChildrenNamed(nodes, obs.dirBefore, W("d"), "dir") # {}
              /\ nodes[currentDir].name = W("d"))
    ]_vars

-----------------------------------------------------------------------------
(* C4: an up-arrow press with the cursor above 0 moves the cursor down by one *)
(* and shows the history entry there, so k presses from cursor n show h[n-k]; *)
(* a down-arrow press with the cursor below n moves it up by one and shows the *)
(* entry there, or the empty buffer at n; a completed Enter leaves cursor = n *)
C4_HistoryNavigation ==
  [][ /\ UpArrow /\ historyIndex > 0 =>
           /\ historyIndex' = historyIndex - 1
           /\ inputString' = bashHistory[historyIndex' + 1]
           /\ bashHistory' = bashHistory
           /\ (obs.op = "enter" /\ ~obs.thrown => inputString' = bashHistory[Len(bashHistory)])
      /\ DownArrow /\ historyIndex < Len(bashHistory) =>
           /\ historyIndex' = historyIndex + 1
           /\ inputString' = IF historyIndex' = Len(bashHistory) THEN <<>>
                             ELSE bashHistory[historyIndex' + 1]
           /\ bashHistory' = bashHistory
      /\ Enter /\ ~obs'.thrown => historyIndex' = Len(bashHistory')
    ]_vars

C4_Witness ==
  /\ obs.op = "down"
  /\ Len(bashHistory) = 2
  /\ bashHistory[1] # bashHistory[2]
  /\ historyIndex = 1
  /\ inputString = bashHistory[2]

(* C5: Enter on any buffer completes without a fault, and afterwards the *)
(* buffer is empty and the cursor equals the history length *)
C5_EnterNeverFaults ==
  [][ Enter => /\ ~obs'.thrown
               /\ inputString' = <<>>
               /\ historyIndex' = Len(bashHistory') ]_vars

Candidates == tabOptions(Shell, Line).options

TabPrinted ==
  outputElement' = outputElement \o
    <<getPS1String(Shell) \o inputString, Join(Candidates, " ")>>

OtherKeystroke == Enter \/ Backspace \/ UpArrow \/ DownArrow \/ Type

(* C6, as claimed: with more than one candidate the first Tab arms the flag *)
(* and prints nothing, the second prints the prompt line and the candidates *)
(* and resets the flag; any other keystroke clears the flag *)
C6_TabResetsAfterPrinting ==
  [][ /\ Tab /\ Len(Candidates) > 1 =>
           IF tabPressed THEN TabPrinted /\ ~tabPressed'
           ELSE outputElement' = outputElement /\ tabPressed'
      /\ OtherKeystroke => ~tabPressed'
    ]_vars

(* C6, as amended: the second consecutive Tab prints the prompt line and the *)
(* candidates and leaves the flag set, so every further consecutive Tab prints *)
(* again; the first arms the flag without printing; any other keystroke *)
(* clears the flag *)
C6_TabKeepsPrinting ==
  [][ /\ Tab /\ Len(Candidates) > 1 =>
           /\ tabPressed'
           /\ IF tabPressed THEN TabPrinted ELSE outputElement' = outputElement
           /\ inputString' = inputString
      /\ OtherKeystroke => ~tabPressed'
    ]_vars

C6_Witness ==
  /\ obs.op = "tab"
  /\ tabPressed
  /\ Len(outputElement) = 4
  /\ outputElement[2] = Join(validCommands, " ")
  /\ outputElement[4] = Join(validCommands, " ")
  /\ outputElement[1] = outputElement[3]

-----------------------------------------------------------------------------
(* C7: a redirect with nothing after the operator reports a syntax error in *)
(* stderr and leaves the file tree unchanged *)
C7_EmptyRedirectTarget ==
  [][ Executes(l_echo_x_to_nothing) => obs'.stdErr # <<>> /\ nodes' = nodes ]_vars

(* C8: a redirect into a directory that does not exist reports no such file or *)
(* directory with empty stdOut and creates nothing; when the directory exists *)
(* the target file is resolved or created inside it *)
C8_RedirectTargetDirectory ==
  [][ /\ Executes(l_echo_x_to_n_f) /\ ChildrenNamed(nodes, currentDir, W("n"), "dir") = {}
           => /\ obs'.stdErr = <<<<"bash: ">> \o <<"n", "/", "f">>
                                  \o <<": No such file or directory">>>>
              /\ obs'.stdOut = <<>>
              /\ nodes' = nodes
      /\ Executes(l_echo_x_to_d_f) /\ ChildrenNamed(nodes, currentDir, W("d"), "dir") # {}
           => \E i \in ChildrenNamed(nodes, currentDir, W("d"), "dir") :
                LET d == nodes[currentDir].children[i]
                IN \E k \in ChildrenNamed(nodes', d, W("f"), "txt") :
                     nodes'[nodes'[d].children[k]].contents = <<W("x")>>
    ]_vars

-----------------------------------------------------------------------------

LsLines == {line \in Lines : ShellCommand(line).command = c_ls /\ Len(ShellCommand(line).args) > 0}

CannotAccess(arg) == <<"ls: cannot access ">> \o arg \o <<": no such file or directory">>

ResolvesToDir(arg) == findFile(nodes, currentDir, Split(arg, "/"), "dir") # Null

(* C9: `ls` with arguments gives one stdOut entry per argument that resolves to *)
(* a directory and one `ls: cannot access <arg>: no such file or directory` *)
(* line per argument that does not, and changes neither tree nor directory *)
C9_LsPerArgument ==
  [][ \A line \in LsLines :
        Executes(line) =>
          LET args == ShellCommand(line).args
              good == SelectSeq(args, LAMBDA a : ResolvesToDir(a))
              bad == SelectSeq(args, LAMBDA a : ~ResolvesToDir(a))
          IN /\ Len(obs'.stdOut) + Len(obs'.stdErr) = Len(args)
             /\ Len(obs'.stdOut) = Len(good)
             /\ obs'.stdErr = [i \in 1..Len(bad) |-> CannotAccess(bad[i])]
             /\ (line = l_ls_n => obs'.stdOut = <<>> /\ obs'.stdErr = <<CannotAccess(W("n"))>>)
             /\ nodes' = nodes
             /\ currentDir' = currentDir
    ]_vars

C9_Witness ==
  /\ Ran(l_ls_d_n)
  /\ Len(obs.stdOut) = 1
  /\ obs.stdErr = <<CannotAccess(W("n"))>>

(* C10: a second `mkdir d` or `touch f` creates nothing: after `mkdir d` there *)
(* is exactly one directory d, `touch f` on a missing f creates one empty text *)
(* file, and repeating either leaves the children as they were, the second *)
(* touch only setting the timestamp *)
C10_CreationIdempotent ==
  [][ /\ Executes(l_mkdir_d) =>
           /\ Cardinality(ChildrenNamed(nodes', currentDir, W("d"), "dir")) = 1
           /\ (Ran(l_mkdir_d) => nodes' = nodes)
      /\ Executes(l_touch_f) =>
           /\ Cardinality(ChildrenNamed(nodes', currentDir, W("f"), "txt")) = 1
           /\ (ChildrenNamed(nodes, currentDir, W("f"), "txt") = {} =>
                 /\ Len(nodes') = Len(nodes) + 1
                 /\ nodes'[Len(nodes')].contents = <<>>
                 /\ nodes'[currentDir].children = Append(nodes[currentDir].children, Len(nodes')))
           /\ (Ran(l_touch_f) =>
                 \E i \in ChildrenNamed(nodes, currentDir, W("f"), "txt") :
                   LET f == nodes[currentDir].children[i]
                   IN nodes' = [nodes EXCEPT ![f].lastModified = now])
    ]_vars

C10_Witness ==
  /\ Ran(l_touch_f)
  /\ obs.nodesBefore = Len(nodes)
  /\ \E i \in ChildrenNamed(nodes, currentDir, W("f"), "txt") :
       nodes[nodes[currentDir].children[i]].lastModified = MaxTime
  /\ Cardinality(ChildrenNamed(nodes, currentDir, W("d"), "dir")) = 1

-----------------------------------------------------------------------------
NotFound(name) == <<name \o <<": command not found">>>>

(* C11: a line whose command name is not a recognized command returns empty *)
(* stdOut and stdErr `<name>: command not found`, and leaves the file tree and *)
(* the current directory unchanged *)
C11_UnknownCommand ==
  [][ \A line \in {l_foo, l_foo_to_f} :
        ExecutesCmd(line) =>
          /\ obs'.stdOut = <<>>
          /\ obs'.stdErr = NotFound(w_foo)
          /\ nodes' = nodes
          /\ currentDir' = currentDir
    ]_vars

Directories == {e \in 1..Len(nodes) : nodes[e].filetype = "dir"}

(* C12: `pwd` returns exactly one stdOut line, the full path of the current *)
(* directory, which no other directory has, with empty stdErr; `whoami` *)
(* returns the user name as the first stdOut line with empty stdErr *)
C12_PwdWhoami ==
  [][ /\ ExecutesCmd(l_pwd) =>
           /\ obs'.stdOut = <<nodes[currentDir].fullPath>>
           /\ obs'.stdErr = <<>>
           /\ \A e \in Directories \ {currentDir} : <<nodes[e].fullPath>> # obs'.stdOut
      /\ ExecutesCmd(l_whoami) =>
           /\ Len(obs'.stdOut) >= 1
           /\ obs'.stdOut[1] = user
           /\ obs'.stdErr = <<>>
    ]_vars

C12_Witness ==
  /\ Ran(l_pwd)
  /\ currentDir # fileStructure
  /\ obs.stdOut = << <<"/", "d">> >>
  /\ obs.stdErr = <<>>

(* C13: `clear` empties the display whatever it held and returns empty stdOut *)
(* and stdErr; the file tree, the current directory and the history are *)
(* unchanged *)
C13_ClearEmptiesDisplay ==
  [][ ExecutesCmd(l_clear) =>
        /\ outputElement' = <<>>
        /\ obs'.stdOut = <<>>
        /\ obs'.stdErr = <<>>
        /\ nodes' = nodes
        /\ currentDir' = currentDir
        /\ bashHistory' = bashHistory
    ]_vars

C13_Witness ==
  /\ Ran(l_clear)
  /\ obs.outBefore > 1
  /\ outputElement = <<>>
  /\ Len(nodes) > 1

(* C14: `help` is a recognized command: the line `help` returns non-empty *)
(* stdOut and empty stdErr *)
C14_HelpRecognized ==
  [][ ExecutesCmd(l_help) => obs'.stdOut # <<>> /\ obs'.stdErr = <<>> ]_vars

-----------------------------------------------------------------------------
a_b_c == L(<<W("a"), W("b"), W("c")>>)

(* C16: for `echo a OP f b c` with OP either `>` or `>>` the inner command runs *)
(* with the arguments a, b, c, every token after the target in order, so that *)
(* `a b c` is what is written to f: all of f after `>`, its last line after `>>` *)
C16_RedirectTrailingTokens ==
  [][ /\ ExecutesFileCmd(l_echo_a_to_f_b_c) => CatF' = <<a_b_c>>
      /\ ExecutesFileCmd(l_echo_a_onto_f_b_c) => CatF' = CatF \o <<a_b_c>>
    ]_vars


-----------------------------------------------------------------------------
DirectoryNotFound(dirPart) == <<dirPart \o <<": Directory not found">>>>

Created(name, filetype) ==
  \A k \in (Len(nodes) + 1)..Len(nodes') :
    /\ nodes'[k].name = name
    /\ nodes'[k].filetype = filetype
    /\ nodes'[k].parentRef = currentDir

IsDir(name) == findFile(nodes, currentDir, <<name>>, "dir") # Null

(* C19: `touch` or `mkdir` with an argument whose all-but-last segments do not *)
(* resolve to a directory (missing, or a text file) reports one *)
(* `<dir>: Directory not found` line for it and creates no node for it, no *)
(* intermediate directory either; the arguments after it are still processed, *)
(* so the tree ends as the command with only those arguments leaves it *)
C19_MissingParent ==
  [][ /\ ExecutesFileCmd(l_touch_n_f_g) /\ ~IsDir(W("n")) =>
           /\ obs'.stdErr = DirectoryNotFound(W("n"))
           /\ Created(W("g"), "txt")
           /\ nodes' = executeCommand(Shell, l_touch_g).sh.nodes
           /\ ChildrenNamed(nodes', currentDir, W("g"), "txt") # {}
      /\ ExecutesFileCmd(l_mkdir_n_e_d) /\ ~IsDir(W("n")) =>
           /\ obs'.stdErr = DirectoryNotFound(W("n"))
           /\ Created(W("d"), "dir")
           /\ nodes' = executeCommand(Shell, l_mkdir_d).sh.nodes
           /\ ChildrenNamed(nodes', currentDir, W("d"), "dir") # {}
      /\ ExecutesFileCmd(l_mkdir_g_e_d) /\ ~IsDir(W("g")) =>
           /\ obs'.stdErr = DirectoryNotFound(W("g"))
           /\ Created(W("d"), "dir")
           /\ nodes' = executeCommand(Shell, l_mkdir_d).sh.nodes
           /\ ChildrenNamed(nodes', currentDir, W("d"), "dir") # {}
    ]_vars

C19_Witness ==
  /\ Ran(l_mkdir_g_e_d)
  /\ obs.stdErr = DirectoryNotFound(W("g"))
  /\ ChildrenNamed(nodes, currentDir, W("g"), "txt") # {}
  /\ Len(nodes) = obs.nodesBefore + 1
  /\ nodes[Len(nodes)].name = W("d")
  /\ nodes[Len(nodes)].parentRef = currentDir

-----------------------------------------------------------------------------
l_vi_f == L(<<c_vi, W("f")>>)

(* C15: Enter on `vi f` returns an empty result and installs a child process; *)
(* while the child is active a keystroke goes to the child only, leaving the *)
(* buffer, the history, its cursor, the tab flag and the current directory as *)
(* they were, until killChildProcess removes the child; after that a typed *)
(* character is appended to the buffer by the shell again *)
C15_ModalChild ==
  [][ /\ Enter /\ inputString = l_vi_f =>
           /\ obs'.stdOut = <<>> /\ obs'.stdErr = <<>> /\ ~obs'.thrown
           /\ childProcess'.active
           /\ childProcess'.fPath = <<W("f")>>
      /\ childProcess.active =>
           /\ inputString' = inputString
           /\ inputPromptElement' = inputPromptElement
           /\ bashHistory' = bashHistory
           /\ historyIndex' = historyIndex
           /\ tabPressed' = tabPressed
           /\ currentDir' = currentDir
           /\ obs'.op \in {"child", "killChildProcess"}
           /\ (childProcess' = childProcess \/ obs'.op = "killChildProcess")
      /\ killChildProcess => ~childProcess'.active
      /\ Type /\ obs.op = "killChildProcess" => Len(inputString') = Len(inputString) + 1
    ]_vars

C15_Witness ==
  /\ Len(bashHistory) > 0
  /\ bashHistory[Len(bashHistory)] = l_vi_f
  /\ ~childProcess.active
  /\ obs.op = "char"
  /\ inputString = W("a")

(* C20: the history cursor is always between 0 and the history length; the *)
(* history changes only by Enter on a buffer with a non-space character, which *)
(* appends that buffer as the last entry and keeps every earlier entry; Enter *)
(* on a blank buffer and every other keystroke leave the history as it was *)
C20_HistoryAppendOnly ==
  /\ [](historyIndex \in 0..Len(bashHistory))
  /\ [][ /\ Enter /\ ~IsBlank(inputString) => bashHistory' = Append(bashHistory, inputString)
         /\ obs'.op # "enter" \/ IsBlank(inputString) => bashHistory' = bashHistory
       ]_vars

C20_Witness ==
  /\ obs.op = "enter"
  /\ Len(bashHistory) = 2
  /\ bashHistory[1] = bashHistory[2]
  /\ historyIndex = 2
  /\ outputElement # <<>>

-----------------------------------------------------------------------------
LastToken(str) == Split(str, " ")[Len(Split(str, " "))]

EndsWithCandidate(token, complete) ==
  \E n \in 0..Len(token) :
    /\ SliceFrom(token, n) = complete
    /\ (n = 0 \/ token[n] = "/")

(* C17: a Tab press with exactly one candidate appends to the buffer only the *)
(* part of the candidate not yet typed, the typed part being the end of the *)
(* old buffer, and afterwards the last space-delimited token of the buffer *)
(* ends, from its last path separator on, with the candidate; in command-name *)
(* and argument context, also for a buffer ending in a space after an argument *)
C17_SingleCandidate ==
  [][ Tab /\ Len(Candidates) = 1 =>
        /\ \E k \in 0..Len(Candidates[1]) :
             /\ k <= Len(inputString)
             /\ SliceFrom(inputString, Len(inputString) - k) = SliceTo(Candidates[1], k)
             /\ inputString' = inputString \o SliceFrom(Candidates[1], k)
        /\ EndsWithCandidate(LastToken(inputString'), Candidates[1])
    ]_vars

ArgumentContext ==
  /\ ShellCommand(inputString).command # <<>>
  /\ \/ Len(ShellCommand(inputString).args) > 0
     \/ inputString[Len(inputString)] = " "

(* C18: a Tab press in argument context with no candidate, because no child *)
(* of the resolved directory has the typed prefix or because the directory *)
(* part of the partial path does not resolve, leaves the buffer, the display *)
(* and the file tree unchanged and completes without a fault *)
C18_NoCandidates ==
  [][ Tab /\ ArgumentContext /\ Len(Candidates) = 0 =>
        /\ ~obs'.thrown
        /\ inputString' = inputString
        /\ inputPromptElement' = inputPromptElement
        /\ outputElement' = outputElement
        /\ nodes' = nodes
    ]_vars

====
